---- MODULE Spec2Model ----
(***************************************************************************)
(* Model of the raster windowing and band-stacking engine of               *)
(* odeon/commons/rasterio.py: stack_window_raster (one call, followed      *)
(* statement by statement), count_band_for_stacking, add_height,           *)
(* normalize_array_in, get_scale_factor_and_img_size and get_bounds; and   *)
(* of the guards of odeon/commons/guard.py.                                *)
(*                                                                         *)
(* The geometry of stack_window_raster is one-dimensional (the x axis; the *)
(* code treats y the same way) and integer valued; the geometry functions  *)
(* taken alone are two-dimensional, in exact fractions.  Pixel arrays are  *)
(* short sequences of integers.                                            *)
(***************************************************************************)
EXTENDS Integers, Sequences, FiniteSets, TLC

VARIABLES
    \* ---- arguments of stack_window_raster
    center,             \* center.x
    rasters,            \* dict_of_raster, in registration (iteration) order
    mns_mnt,            \* the height-synthesis flag
    compute_only_masks, \* "False", "True", "0" or "1" (bool or int form)
    meta,               \* metadata of the image patch
    meta_msk,           \* metadata of the mask patch
    \* ---- locals of stack_window_raster
    pc,                 \* position in the function body
    it,                 \* position of the for loop in rasters
    idx,                \* next band index to write
    first,              \* the flag "first"
    window,             \* the shared variable "window"
    window_src,         \* name of the source the value of "window" was computed from
    err,                \* the exception that ended the call, or "none"
    \* ---- the files
    imgFile,            \* center["img_file"]: "absent", "stale", "open", "closed"
    imgMeta,            \* the metadata the image patch was opened with
    imgWrites,          \* dst.write_band calls, in order
    mskWrites,          \* create_patch_from_center calls, in order
    handles,            \* the raster handles open at this point of the call
    shapes,             \* target shape (width) of each read and each output file
    \* ---- one call of add_height
    h_pc, h_dsm, h_dtm, h_meta_dtype, h_dtype, h_ub, h_out,
    \* ---- one call of normalize_array_in
    n_pc, n_array, n_dtype, n_max, n_ub,
    n_scaled,           \* whether the scaling statement (the division) ran
    n_out,
    \* ---- get_scale_factor_and_img_size followed by get_bounds (as _get_window)
    g_pc,
    g_res,              \* target.res: native resolution (x, y)
    g_resolution,       \* desired resolution (x, y)
    g_width, g_height,  \* desired size in pixels
    g_x, g_y,           \* center.x, center.y
    g_scale,            \* what get_scale_factor_and_img_size returned
    g_bounds,           \* what get_bounds returned
    \* ---- one call of a guard of odeon/commons/guard.py
    q_pc,
    q_guard,            \* the guard called
    q_arg,              \* its argument: a single path or a list
    q_bands,            \* list_of_band
    q_files,            \* the paths that are existing files
    q_out,              \* "ok", or the exception that reached the caller
    \* ---- a second call of stack_window_raster with the same arguments
    calls,              \* 1 during the first call, 2 during the second
    prev,               \* the files and the outcome the first call left
    \* ---- two calls of stack_window_raster for two centers, interleaved
    p_shared,           \* whether both calls were given the same meta and meta_msk
    p_center,           \* center.x of each call
    p_raster,           \* the first raster of dict_of_raster
    p_pc,               \* position of each call
    p_meta,             \* "transform" of each meta object
    p_meta_msk,         \* "transform" of each meta_msk object
    p_img,              \* transform the image patch of each call was opened with
    p_msk,              \* transform the mask patch of each call was opened with
    \* ---- CustomPredictionWriter
    w_pc,
    w_output_type,      \* self.output_type
    w_threshold,        \* self.threshold, in tenths
    w_interval,         \* the write interval: "batch" or "epoch"
    w_meta,             \* self.meta (trainer.datamodule.meta["test"])
    w_gdal,             \* self.gdal_options
    w_batch,            \* the prediction of the batch: items (filename, affine, proba)
    w_i,                \* position of the for loop in the batch
    w_files,            \* the files opened and written for the batch, in order
    w_batch_no,         \* number of batches seen
    \* ---- HistorySaver
    l_logger,           \* trainer.logger
    l_idx,              \* self.idx_json_loggers
    l_log,              \* the calls of get_json_logger so far: phase and outcome
    \* ---- set_afffine_transform_to_meta
    a_pc,
    a_center,           \* center.x, center.y
    a_meta,             \* meta: width, height, transform
    a_out               \* the transform returned

stackVars == <<center, rasters, mns_mnt, compute_only_masks, meta, meta_msk,
               pc, it, idx, first, window, window_src, err, imgFile, imgMeta,
               imgWrites, mskWrites, handles, shapes>>
heightVars == <<h_pc, h_dsm, h_dtm, h_meta_dtype, h_dtype, h_ub, h_out>>
normVars == <<n_pc, n_array, n_dtype, n_max, n_ub, n_scaled, n_out>>
geoVars == <<g_pc, g_res, g_resolution, g_width, g_height, g_x, g_y, g_scale, g_bounds>>
guardVars == <<q_pc, q_guard, q_arg, q_bands, q_files, q_out>>
againVars == <<calls, prev>>
pairVars == <<p_shared, p_center, p_raster, p_pc, p_meta, p_meta_msk, p_img, p_msk>>
writerVars == <<w_pc, w_output_type, w_threshold, w_interval, w_meta, w_gdal,
                w_batch, w_i, w_files, w_batch_no>>
loggerVars == <<l_logger, l_idx, l_log>>
affineVars == <<a_pc, a_center, a_meta, a_out>>
laterVars == <<againVars, pairVars, writerVars, loggerVars, affineVars>>
otherVars == <<normVars, geoVars, guardVars, laterVars>>
vars == <<stackVars, heightVars, otherVars>>

\* no call of normalize_array_in under observation
NormIdle ==
    /\ n_pc = "idle" /\ n_array = <<>> /\ n_dtype = "uint8" /\ n_max = 0
    /\ n_ub = "wrap" /\ n_scaled = FALSE /\ n_out = <<>>

\* no geometry call under observation
GeoIdle ==
    /\ g_pc = "idle" /\ g_res = <<>> /\ g_resolution = <<>>
    /\ g_width = 0 /\ g_height = 0 /\ g_x = 0 /\ g_y = 0
    /\ g_scale = <<>> /\ g_bounds = <<>>

\* no guard call under observation
GuardIdle ==
    /\ q_pc = "idle" /\ q_guard = "none" /\ q_arg = <<>> /\ q_bands = <<>>
    /\ q_files = {} /\ q_out = "none"

\* the first call, nothing left by an earlier one
AgainIdle == calls = 1 /\ prev = <<>>

\* no pair of calls under observation
PairIdle ==
    /\ p_shared = FALSE /\ p_center = <<>> /\ p_raster = <<>> /\ p_pc = <<>>
    /\ p_meta = <<>> /\ p_meta_msk = <<>> /\ p_img = <<>> /\ p_msk = <<>>

\* no prediction writer under observation
WriterIdle ==
    /\ w_pc = "idle" /\ w_output_type = "none" /\ w_threshold = 0
    /\ w_interval = "none" /\ w_meta = <<>> /\ w_gdal = <<>> /\ w_batch = <<>>
    /\ w_i = 0 /\ w_files = <<>> /\ w_batch_no = 0

\* no history saver under observation
LoggerIdle == l_logger = "none" /\ l_idx = <<>> /\ l_log = <<>>

\* no transform under computation
AffineIdle == a_pc = "idle" /\ a_center = <<>> /\ a_meta = <<>> /\ a_out = <<>>

LaterIdle == AgainIdle /\ PairIdle /\ WriterIdle /\ LoggerIdle /\ AffineIdle

OtherIdle == NormIdle /\ GeoIdle /\ GuardIdle /\ LaterIdle

(***************************************************************************)
(* Bounds of the model                                                     *)
(***************************************************************************)
MaxRasters == 3     \* longest raster set
MaxPix == 3         \* largest pixel value read from a DSM or DTM
NegPix == 1         \* the smallest pixel value is -NegPix
ArrLen == 2         \* pixels per band

(***************************************************************************)
(* Inputs                                                                  *)
(***************************************************************************)
RasterNames == {"RGB", "CIR", "DSM", "DTM"}
Resolutions == {1, 2}       \* native resolutions, in ground units per pixel
DesiredRes == {1}           \* the resolution of the patch
Centers == {4, 8}           \* center.x
Widths == {4}               \* meta["width"]
COMValues == {"False", "True", "0", "1"}

\* src.meta["count"] of each source
NativeCount(name) == IF name = "RGB" THEN 3 ELSE IF name = "CIR" THEN 2 ELSE 1

\* raster["bands"]: the declared band list (any order, possibly a subset)
BandChoices(name) ==
    IF name = "RGB" THEN {<<1, 2, 3>>, <<3, 1>>}
    ELSE IF name = "CIR" THEN {<<2, 1>>}
    ELSE {<<1>>}

\* get_scale_factor_and_img_size: scaled_width = width / (native / desired)
ScaledWidth(res, resolution, width) ==
    IF res = resolution THEN width ELSE (width * resolution) \div res

RasterChoices(name, resolution, width) ==
    { [name |-> name, bands |-> b, count |-> NativeCount(name), res |-> r,
       scaled_width |-> ScaledWidth(r, resolution, width)] :
        b \in BandChoices(name), r \in Resolutions }

Names(rs) == { rs[i].name : i \in 1..Len(rs) }

\* all raster sets of at most n sources with distinct names
RECURSIVE RasterSets(_, _, _)
RasterSets(n, resolution, width) ==
    IF n = 0 THEN { <<>> }
    ELSE LET shorter == RasterSets(n - 1, resolution, width) IN
         shorter \cup
         { Append(rs, r) : rs \in { s \in shorter : Len(s) = n - 1 },
                           r \in UNION { RasterChoices(nm, resolution, width) :
                                         nm \in RasterNames } }

DistinctNames(rs) == Cardinality(Names(rs)) = Len(rs)

(***************************************************************************)
(* Window geometry                                                         *)
(***************************************************************************)
\* get_bounds: (left, right) of the box of width*resolution around x
get_bounds(x, width, resolution_x) ==
    LET x_side == (width * resolution_x) \div 2 IN
    [left |-> x - x_side, right |-> x + x_side]

\* dataset.transform of every source: origin 0, pixel size = its resolution
SrcTransform(raster) == [c |-> 0, a |-> raster.res]

\* rasterio.windows.from_bounds
from_bounds(b, transform) ==
    [col_off |-> (b.left - transform.c) \div transform.a,
     width |-> (b.right - b.left) \div transform.a]

\* _get_window(dataset, raster)
GetWindow(x, raster) ==
    from_bounds(get_bounds(x, raster.scaled_width, raster.res), SrcTransform(raster))

\* rasterio.windows.transform(window, transform)
WindowTransform(win, transform) ==
    [c |-> transform.c + win.col_off * transform.a, a |-> transform.a]

NoWindow == [col_off |-> -1, width |-> 0]
NoTransform == [c |-> -1, a |-> 0]

(***************************************************************************)
(* count_band_for_stacking                                                 *)
(***************************************************************************)
RECURSIVE SumCounts(_)
SumCounts(rs) ==
    IF rs = <<>> THEN 0
    ELSE (IF Head(rs).name \in {"DSM", "DTM"} THEN 0 ELSE Head(rs).count)
         + SumCounts(Tail(rs))

\* ("DSM" and "DTM") in rasters: Python evaluates "DSM" and "DTM" to "DTM"
DsmAndDtmIn(rs) == "DTM" \in Names(rs)

count_band_for_stacking(rs) ==
    (IF DsmAndDtmIn(rs) THEN 1 ELSE 0) + SumCounts(rs)

(***************************************************************************)
(* normalize_array_in and add_height                                       *)
(***************************************************************************)
DTypes == {"uint8", "uint16"}       \* keys of IMAGE_TYPE within 32-bit integers

\* IMAGE_TYPE[dtype][2]
MaxTypeVal(dtype) == IF dtype = "uint8" THEN 2^8 - 1 ELSE 2^16 - 1

Modulus(dtype) == MaxTypeVal(dtype) + 1

\* what a build does with a float that the unsigned type cannot hold
UBOutcomes == {"wrap", "saturate"}

\* integer division rounding toward zero, as a float-to-integer cast does
TruncDiv(a, b) ==
    IF (a >= 0) = (b > 0) \/ a = 0
    THEN (IF a >= 0 THEN a ELSE -a) \div (IF b > 0 THEN b ELSE -b)
    ELSE -((IF a >= 0 THEN a ELSE -a) \div (IF b > 0 THEN b ELSE -b))

\* ndarray.astype(dtype) of a float value v (already truncated toward zero)
CastFloat(v, dtype, ub) ==
    IF 0 <= v /\ v <= MaxTypeVal(dtype) THEN v
    ELSE IF ub = "wrap" THEN v % Modulus(dtype)
    ELSE IF v < 0 THEN 0 ELSE MaxTypeVal(dtype)

\* ndarray.astype(dtype) of an integer value: modular
CastInt(v, dtype) == v % Modulus(dtype)

RECURSIVE ArrayMax(_)
ArrayMax(array) ==
    IF Len(array) = 1 THEN array[1]
    ELSE LET m == ArrayMax(Tail(array)) IN IF array[1] > m THEN array[1] ELSE m

\* the test replaced by "always"
Scales_Always(array) == TRUE

\* line 520: float(array.max()) != float(0)
Scales(array) == ArrayMax(array) # 0

\* the scaling statement left out
ScaleValue_Identity(v, max_type_val, m) == v

\* line 522: one element of array * (max_type_val / array.max()), truncated.
\* A zero divisor gives nan for 0 and an infinity otherwise (float64
\* division does not raise); the infinities are held as the nearest
\* values outside the range of every type.
ScaleValue(v, max_type_val, m) ==
    IF m # 0 THEN TruncDiv(v * max_type_val, m)
    ELSE IF v = 0 THEN 0
    ELSE IF v > 0 THEN max_type_val + 1 ELSE 0 - (max_type_val + 1)

\* normalize_array_in(array, dtype, max_type_val)
normalize_array_in(array, dtype, max_type_val, ub) ==
    LET m == ArrayMax(array) IN
    IF Scales(array)
    THEN [i \in 1..Len(array) |-> CastFloat(ScaleValue(array[i], max_type_val, m), dtype, ub)]
    ELSE [i \in 1..Len(array) |-> CastFloat(array[i], dtype, ub)]

\* band[band > upper_bound] = upper_bound left out
ClipHeight_NoUpper(v) == IF 5 * v < 1 THEN 0 ELSE v

\* lines 463-465: band[band < 0.2] = 0.2 (stored in an integer array: 0),
\* band[band > 255] = 255
ClipHeight(v) == IF 5 * v < 1 THEN 0 ELSE IF v > 255 THEN 255 ELSE v

\* add_height(dsm_ds, dtm_ds, meta, dtype, ...) on the bands read
add_height(dsm, dtm, meta_dtype, dtype, ub) ==
    LET dsm_band == normalize_array_in(dsm, meta_dtype, MaxTypeVal(meta_dtype), ub)
        dtm_band == normalize_array_in(dtm, meta_dtype, MaxTypeVal(meta_dtype), ub)
        \* unsigned array arithmetic: modulo 2^width
        diff == [i \in 1..Len(dsm_band) |-> (dsm_band[i] - dtm_band[i]) % Modulus(meta_dtype)]
        scaled == [i \in 1..Len(diff) |-> (diff[i] * 5) % Modulus(meta_dtype)]
    IN  [i \in 1..Len(scaled) |-> CastInt(ClipHeight(scaled[i]), dtype)]

(***************************************************************************)
(* stack_window_raster                                                     *)
(***************************************************************************)
\* the test inverted
EqZero_Inverted(com) == com \notin {"False", "0"}

\* compute_only_masks == 0 (True for False and for 0)
EqZero(com) == com \in {"False", "0"}

\* compute_only_masks is False (identity: True for the bool False only)
IsFalse(com) == com = "False"

\* raster_name in ["DSM", "DTM"] and mns_mnt
IsHeightSource(raster, flag) == raster.name \in {"DSM", "DTM"} /\ flag

\* rasters[name]
RasterNamed(rs, name) == rs[CHOOSE i \in 1..Len(rs) : rs[i].name = name]

\* dst.write_band(idx, band) for each i of raster["bands"], from index start on.
\* A band index above the count of the open file is refused by the backend.
RECURSIVE WriteBands(_, _, _, _, _)
WriteBands(bands, raster, win, start, count) ==
    IF bands = <<>> THEN [writes |-> <<>>, idx |-> start, ok |-> TRUE]
    ELSE IF start > count THEN [writes |-> <<>>, idx |-> start, ok |-> FALSE]
    ELSE LET rest == WriteBands(Tail(bands), raster, win, start + 1, count) IN
         [writes |-> <<[idx |-> start, src |-> raster.name, band |-> Head(bands),
                        window |-> win]>> \o rest.writes,
          idx |-> rest.idx, ok |-> rest.ok]

\* the old image file is kept
RemoveOld_Keep(file) == file

\* lines 226-228: if os.path.isfile(center["img_file"]): os.remove(...)
RemoveOld(file) == "absent"

\* the handle is left open
ExitWith_Leak(hs, h) == hs

\* "with rasterio.open(...) as h": the handle is open inside the block and
\* closed when the block is left, by its end or by an exception
ExitWith(hs, h) == hs \ {h}
EnterWith(hs, h) == hs \cup {h}

\* the shape of the window read
MaskReadWidth_Window(m, win) == win.width

\* line 157: out_shape=(meta["count"], meta["height"], meta["width"]), meta
\* being the mask metadata
MaskReadWidth(m, win) == m.width

\* create_patch_from_center: the read of the mask source and the output file
MaskShapes(m, win) ==
    <<[what |-> "mask", width |-> MaskReadWidth(m, win)],
      [what |-> "msk_file", width |-> m.width]>>

\* the handles of create_patch_from_center, opened and closed inside it
MaskHandles(hs) ==
    ExitWith(ExitWith(EnterWith(EnterWith(hs, "msk_src"), "msk_out"), "msk_out"), "msk_src")

\* create_patch_from_center(center["msk_file"], raster_out, meta_msk, window, ..)
MaskPatch(win, src, m) == [window |-> win, src |-> src, transform |-> m.transform]

HeightIdle ==
    /\ h_pc = "idle" /\ h_dsm = <<>> /\ h_dtm = <<>>
    /\ h_meta_dtype = "uint8" /\ h_dtype = "uint8" /\ h_ub = "wrap" /\ h_out = <<>>

Init ==
    /\ center \in Centers
    /\ \E w \in Widths, d \in DesiredRes :
          /\ rasters \in { rs \in RasterSets(MaxRasters, d, w) : DistinctNames(rs) }
          /\ meta = [count |-> 0, width |-> w, transform |-> NoTransform]
          /\ meta_msk = [count |-> 1, width |-> w, transform |-> NoTransform]
    /\ mns_mnt \in BOOLEAN
    /\ compute_only_masks \in COMValues
    /\ imgFile \in {"absent", "stale"}
    /\ imgMeta = [count |-> 0, width |-> 0, transform |-> NoTransform]
    /\ pc = "account" /\ it = 0 /\ idx = 0 /\ first = TRUE
    /\ window = NoWindow /\ window_src = "none" /\ err = "none"
    /\ imgWrites = <<>> /\ mskWrites = <<>>
    /\ handles = {} /\ shapes = <<>>
    /\ HeightIdle
    /\ OtherIdle

\* the orchestrator sizes the image patch with the Band Accountant
CountBands ==
    /\ pc = "account"
    /\ meta' = [meta EXCEPT !.count = count_band_for_stacking(rasters)]
    /\ pc' = "start"
    /\ UNCHANGED <<center, rasters, mns_mnt, compute_only_masks, meta_msk, it, idx,
                   first, window, window_src, err, imgFile, imgMeta, imgWrites,
                   mskWrites, handles, shapes, heightVars, otherVars>>

\* lines 226-274: remove the old image, window and transform of the first raster
Call ==
    /\ pc = "start"
    /\ imgFile' = RemoveOld(imgFile)
    /\ IF RemoveOld(imgFile) = "absent"
       THEN imgWrites' = <<>> /\ imgMeta' = [count |-> 0, width |-> 0, transform |-> NoTransform]
       ELSE UNCHANGED <<imgWrites, imgMeta>>
    /\ IF rasters = <<>>
       THEN /\ pc' = "error" /\ err' = "StopIteration"
            /\ UNCHANGED <<window, window_src, meta, meta_msk, handles>>
       ELSE LET raster == rasters[1]
                win == GetWindow(center, raster) IN
            /\ window' = win
            /\ window_src' = raster.name
            /\ meta_msk' = [meta_msk EXCEPT
                               !.transform = WindowTransform(win, SrcTransform(raster))]
            /\ meta' = [meta EXCEPT
                           !.transform = WindowTransform(win, SrcTransform(raster))]
            /\ handles' = ExitWith(EnterWith(handles, "ref"), "ref")
            /\ pc' = "open" /\ err' = err
    /\ UNCHANGED <<center, rasters, mns_mnt, compute_only_masks, it, idx, first,
                   mskWrites, shapes, heightVars, otherVars>>

\* lines 276-282: open the image patch for writing; the backend creates no
\* file without bands
OpenImg ==
    /\ pc = "open"
    /\ IF meta.count < 1
       THEN /\ pc' = "error" /\ err' = "BackendError"
            /\ UNCHANGED <<imgFile, imgMeta, imgWrites, idx, first, it, handles, shapes>>
       ELSE /\ imgFile' = "open"
            /\ imgMeta' = meta
            /\ imgWrites' = <<>>
            /\ handles' = EnterWith(handles, "img")
            /\ shapes' = Append(shapes, [what |-> "img_file", width |-> meta.width])
            /\ idx' = 1 /\ first' = TRUE /\ it' = 1
            /\ pc' = "loop" /\ err' = err
    /\ UNCHANGED <<center, rasters, mns_mnt, compute_only_masks, meta, meta_msk,
                   window, window_src, mskWrites, heightVars, otherVars>>

\* line 284: the for loop is exhausted
LoopEnd ==
    /\ pc = "loop" /\ it > Len(rasters)
    /\ pc' = "height"
    /\ UNCHANGED <<center, rasters, mns_mnt, compute_only_masks, meta, meta_msk,
                   it, idx, first, window, window_src, err, imgFile, imgMeta,
                   imgWrites, mskWrites, handles, shapes, heightVars, otherVars>>

\* lines 286-288: the first DSM or DTM ends the loop
LoopBreak ==
    /\ pc = "loop" /\ it <= Len(rasters)
    /\ IsHeightSource(rasters[it], mns_mnt)
    /\ pc' = "height"
    /\ UNCHANGED <<center, rasters, mns_mnt, compute_only_masks, meta, meta_msk,
                   it, idx, first, window, window_src, err, imgFile, imgMeta,
                   imgWrites, mskWrites, handles, shapes, heightVars, otherVars>>

\* lines 292-302: open the source; the first one also produces the mask patch
LoopMask ==
    /\ pc = "loop" /\ it <= Len(rasters)
    /\ ~IsHeightSource(rasters[it], mns_mnt)
    /\ IF first
       THEN /\ first' = FALSE
            /\ mskWrites' = Append(mskWrites, MaskPatch(window, window_src, meta_msk))
            /\ shapes' = shapes \o MaskShapes(meta_msk, window)
            /\ handles' = MaskHandles(EnterWith(handles, "src"))
       ELSE /\ handles' = EnterWith(handles, "src")
            /\ UNCHANGED <<first, mskWrites, shapes>>
    /\ pc' = "bands"
    /\ UNCHANGED <<center, rasters, mns_mnt, compute_only_masks, meta, meta_msk,
                   it, idx, window, window_src, err, imgFile, imgMeta, imgWrites,
                   heightVars, otherVars>>

\* lines 304-326: the window of this source, then its declared bands
LoopBands ==
    /\ pc = "bands"
    /\ IF EqZero(compute_only_masks)
       THEN LET raster == rasters[it]
                win == IF first = FALSE THEN GetWindow(center, raster) ELSE window
                w == WriteBands(raster.bands, raster, win, idx, meta.count) IN
            /\ window' = win
            /\ window_src' = IF first = FALSE THEN raster.name ELSE window_src
            /\ imgWrites' = imgWrites \o w.writes
            /\ shapes' = shapes \o [k \in 1..Len(w.writes) |->
                                       [what |-> "band", width |-> meta.width]]
            /\ idx' = w.idx
            /\ IF w.ok
               THEN /\ pc' = "loop" /\ it' = it + 1
                    /\ handles' = ExitWith(handles, "src")
                    /\ UNCHANGED <<err, imgFile>>
               ELSE /\ pc' = "error" /\ err' = "BackendError"
                    /\ handles' = ExitWith(ExitWith(handles, "src"), "img")
                    /\ imgFile' = "closed" /\ it' = it
       ELSE /\ pc' = "loop" /\ it' = it + 1
            /\ handles' = ExitWith(handles, "src")
            /\ UNCHANGED <<window, window_src, imgWrites, shapes, idx, err, imgFile>>
    /\ UNCHANGED <<center, rasters, mns_mnt, compute_only_masks, meta, meta_msk,
                   first, imgMeta, mskWrites, heightVars, otherVars>>

\* lines 328-358: the height band from DSM and DTM
HeightBranch ==
    /\ pc = "height"
    /\ DsmAndDtmIn(rasters) /\ mns_mnt
    /\ IF "DSM" \notin Names(rasters)
       THEN /\ pc' = "error" /\ err' = "KeyError"
            /\ handles' = ExitWith(handles, "img")
            /\ UNCHANGED <<idx, imgWrites, mskWrites, shapes>>
       ELSE LET dsm_window == GetWindow(center, RasterNamed(rasters, "DSM"))
                dtm_window == GetWindow(center, RasterNamed(rasters, "DTM"))
                opened == EnterWith(EnterWith(handles, "dsm"), "dtm")
                inside == IF first THEN MaskHandles(opened) ELSE opened
                height_shapes ==
                    <<[what |-> "dsm", width |-> meta.width],
                      [what |-> "dtm", width |-> meta.width]>> IN
            /\ mskWrites' = IF first
                            THEN Append(mskWrites, MaskPatch(dsm_window, "DSM", meta_msk))
                            ELSE mskWrites
            /\ shapes' = shapes
                          \o (IF first THEN MaskShapes(meta_msk, dsm_window) ELSE <<>>)
                          \o (IF IsFalse(compute_only_masks) THEN height_shapes ELSE <<>>)
            /\ handles' = ExitWith(ExitWith(ExitWith(inside, "dtm"), "dsm"), "img")
            /\ IF IsFalse(compute_only_masks)
               THEN IF idx > meta.count
                    THEN /\ pc' = "error" /\ err' = "BackendError"
                         /\ UNCHANGED <<idx, imgWrites>>
                    ELSE /\ imgWrites' = Append(imgWrites,
                                [idx |-> idx, src |-> "HEIGHT", band |-> 1,
                                 window |-> dsm_window])
                         /\ idx' = idx + 1
                         /\ pc' = "done" /\ err' = err
               ELSE /\ pc' = "done" /\ err' = err
                    /\ UNCHANGED <<idx, imgWrites>>
    /\ imgFile' = "closed"
    /\ UNCHANGED <<center, rasters, mns_mnt, compute_only_masks, meta, meta_msk,
                   it, first, window, window_src, imgMeta, heightVars, otherVars>>

\* line 328 is false: the call returns
Return ==
    /\ pc = "height"
    /\ ~(DsmAndDtmIn(rasters) /\ mns_mnt)
    /\ pc' = "done"
    /\ imgFile' = "closed"
    /\ handles' = ExitWith(handles, "img")
    /\ UNCHANGED <<center, rasters, mns_mnt, compute_only_masks, meta, meta_msk,
                   it, idx, first, window, window_src, err, imgMeta, imgWrites,
                   mskWrites, shapes, heightVars, otherVars>>

Next ==
    \/ CountBands \/ Call \/ OpenImg \/ LoopEnd \/ LoopBreak \/ LoopMask \/ LoopBands
    \/ HeightBranch \/ Return

Spec == Init /\ [][Next]_vars

(***************************************************************************)
(* Properties of stack_window_raster and count_band_for_stacking           *)
(***************************************************************************)
Returned == pc = "done"
Failed == pc = "error"
BothHeightSources == {"DSM", "DTM"} \subseteq Names(rasters)
OneHeightSource == Cardinality({"DSM", "DTM"} \cap Names(rasters)) = 1

\* the (source, band) pairs written to the image patch, in write order
Written == [i \in 1..Len(imgWrites) |-> <<imgWrites[i].src, imgWrites[i].band>>]

\* the declared bands of the ordinary sources, in registration and list order
RECURSIVE OrdinaryBands(_)
OrdinaryBands(rs) ==
    IF rs = <<>> THEN <<>>
    ELSE (IF Head(rs).name \in {"DSM", "DTM"} THEN <<>>
          ELSE [i \in 1..Len(Head(rs).bands) |-> <<Head(rs).name, Head(rs).bands[i]>>])
         \o OrdinaryBands(Tail(rs))

\* C1: with compute_only_masks false, a call that returns has written as many
\* bands to the image patch as count_band_for_stacking returns for the same
\* raster set, whatever the raster set and the flag mns_mnt.
C1_BandsEqualAccountant ==
    (Returned /\ IsFalse(compute_only_masks))
        => Len(imgWrites) = count_band_for_stacking(rasters)

\* C2: with height synthesis requested and DSM and DTM both registered, in
\* every registration order the image patch receives the declared bands of
\* every ordinary raster at indices 1..k, in registration and band-list order,
\* and then the height band at index k+1.
C2_OrdinaryThenHeight ==
    (Returned /\ mns_mnt /\ BothHeightSources /\ IsFalse(compute_only_masks))
        => /\ Written = OrdinaryBands(rasters) \o << <<"HEIGHT", 1>> >>
           /\ \A i \in 1..Len(imgWrites) : imgWrites[i].idx = i

\* C3: a call that produces a number of bands different from the count of the
\* patch metadata fails (with BandCountMismatch): it never returns normally
\* with too few or too many bands in the patch.
C3_MismatchRaises ==
    (Returned /\ IsFalse(compute_only_masks)) => Len(imgWrites) = meta.count

\* C4: every mask patch is read with the window of the first raster in
\* iteration order, the one whose transform is stored in meta and meta_msk.
C4_MaskWindowOfFirstRaster ==
    \A i \in 1..Len(mskWrites) :
        mskWrites[i].window = GetWindow(center, rasters[1])

\* C5: the image patch and the mask patch are opened with the same transform,
\* and it is the transform of the window the mask was read with.
C5_SharedTransform ==
    \A i \in 1..Len(mskWrites) :
        /\ mskWrites[i].transform = imgMeta.transform
        /\ mskWrites[i].transform =
              WindowTransform(mskWrites[i].window,
                              SrcTransform(RasterNamed(rasters, mskWrites[i].src)))

OnlyMasks == compute_only_masks \in {"True", "1"}

\* C6 as stated: with compute_only_masks true no image band is written and the
\* mask patch is the only output: the image file is not created.
C6_OnlyMaskProduced ==
    OnlyMasks => /\ imgWrites = <<>>
                 /\ imgFile \notin {"open", "closed"}

\* C6 amended: with compute_only_masks true no image band is written (neither
\* an ordinary band nor the height band) at any point of the call; the image
\* file is nevertheless created, with no band in it, by the time the call
\* returns.
C6_NoImageBandWritten ==
    OnlyMasks => /\ imgWrites = <<>>
                 /\ Returned => imgFile = "closed"

\* a returned call that went through both writing places with the flag true
C6_Witness ==
    /\ OnlyMasks /\ Returned /\ mns_mnt /\ BothHeightSources
    /\ rasters[1].name = "RGB" /\ Len(mskWrites) = 1 /\ imgFile = "closed"

\* C7: with height synthesis requested and exactly one of DSM, DTM present
\* (and an image patch of at least one band to open) the call does not return
\* normally, and the error that ends it is UndefinedHeightInputs.
C7_UndefinedHeightInputs ==
    (mns_mnt /\ OneHeightSource /\ meta.count >= 1)
        => /\ ~Returned
           /\ Failed => err = "UndefinedHeightInputs"

\* C8: count_band_for_stacking returns the sum of the native band counts of
\* the rasters other than DSM and DTM, plus 1 exactly when DSM and DTM are
\* both present.
C8_AccountantSum ==
    pc # "account"
        => meta.count = SumCounts(rasters) + (IF BothHeightSources THEN 1 ELSE 0)

(***************************************************************************)
(* One call of add_height on two bands                                     *)
(***************************************************************************)
PixValues == (0 - NegPix)..MaxPix
Arrays == [1..ArrLen -> PixValues]

StackIdle ==
    /\ center = 0 /\ rasters = <<>> /\ mns_mnt = FALSE /\ compute_only_masks = "False"
    /\ meta = [count |-> 0, width |-> 0, transform |-> NoTransform]
    /\ meta_msk = [count |-> 0, width |-> 0, transform |-> NoTransform]
    /\ imgMeta = [count |-> 0, width |-> 0, transform |-> NoTransform]
    /\ pc = "idle" /\ it = 0 /\ idx = 0 /\ first = TRUE
    /\ window = NoWindow /\ window_src = "none" /\ err = "none"
    /\ imgFile = "absent" /\ imgWrites = <<>> /\ mskWrites = <<>>
    /\ handles = {} /\ shapes = <<>>

InitHeight ==
    /\ StackIdle
    /\ OtherIdle
    /\ h_pc = "start"
    /\ h_dsm \in Arrays /\ h_dtm \in Arrays
    /\ h_meta_dtype \in DTypes /\ h_dtype \in DTypes
    /\ h_ub = "wrap" /\ h_out = <<>>

AddHeight ==
    /\ h_pc = "start"
    /\ \E ub \in UBOutcomes :
          /\ h_ub' = ub
          /\ h_out' = add_height(h_dsm, h_dtm, h_meta_dtype, h_dtype, ub)
    /\ h_pc' = "done"
    /\ UNCHANGED <<stackVars, otherVars, h_dsm, h_dtm, h_meta_dtype, h_dtype>>

NextHeight == AddHeight

SpecHeight == InitHeight /\ [][NextHeight]_vars

\* the normalized surface and terrain bands of the call
NormDsm == normalize_array_in(h_dsm, h_meta_dtype, MaxTypeVal(h_meta_dtype), h_ub)
NormDtm == normalize_array_in(h_dtm, h_meta_dtype, MaxTypeVal(h_meta_dtype), h_ub)

\* C9 as stated: every pixel of the band add_height returns is at least 0.2
\* and at most 255.
C9_HeightInClosedInterval ==
    h_pc = "done" => \A i \in 1..Len(h_out) : 5 * h_out[i] >= 1 /\ h_out[i] <= 255

\* C9 amended: every pixel of the band add_height returns is an integer of the
\* closed interval [0, 255]: the lower bound 0.2 is stored as 0 in the
\* unsigned integer band.
C9_HeightInByteRange ==
    h_pc = "done" => \A i \in 1..Len(h_out) : 0 <= h_out[i] /\ h_out[i] <= 255

\* bands without negative values: no cast of the call is undefined
NaturalInputs == \A i \in 1..ArrLen : h_dsm[i] >= 0 /\ h_dtm[i] >= 0

\* a 16-bit band with one pixel capped at 255 and one floored to 0
C9_Witness ==
    /\ h_pc = "done" /\ h_meta_dtype = "uint16" /\ h_dtype = "uint16"
    /\ NaturalInputs
    /\ h_out[1] = 255 /\ h_out[2] = 0
    /\ 5 * (NormDsm[1] - NormDtm[1]) > 255

\* clip(5 * (s - t), 0.2, 255) in exact arithmetic, then the cast
ExactHeight(sv, tv, dtype) ==
    LET e == 5 * (sv - tv) IN
    CastInt(IF 5 * e < 1 THEN 0 ELSE IF e > 255 THEN 255 ELSE e, dtype)

\* C10: every pixel add_height returns is clip(5 * (s - t), 0.2, 255) of the
\* normalized values s and t, the difference and the product being exact: the
\* lower bound where t > s, 255 where 5 * (s - t) > 255.  Stated for bands
\* without negative values, where every cast is defined.
C10_ExactClippedDifference ==
    (h_pc = "done" /\ NaturalInputs)
        => \A i \in 1..Len(h_out) : h_out[i] = ExactHeight(NormDsm[i], NormDtm[i], h_dtype)

\* C22: every raster handle opened during stack_window_raster is closed when
\* the call exits, by return or by an exception.
C22_NoHandleLeftOpen ==
    (Returned \/ Failed) => handles = {}

\* an error raised while the image patch and a source were both open
C22_Witness ==
    /\ Failed /\ err = "BackendError" /\ imgFile = "closed"
    /\ imgWrites # <<>> /\ mskWrites # <<>> /\ handles = {}

\* a return through the height branch, which opens DSM, DTM and the mask
C22_WitnessReturn ==
    /\ Returned /\ handles = {}
    /\ \E i \in 1..Len(shapes) : shapes[i].what = "dsm"

HeightApplies == mns_mnt /\ BothHeightSources
HeightWritten == \E i \in 1..Len(imgWrites) : imgWrites[i].src = "HEIGHT"

\* C27: compute_only_masks given as the integer 0 is treated as False: a
\* call that returns has written the height band when height synthesis
\* applies (mns_mnt set, DSM and DTM present).
C27_ZeroWritesHeightBand ==
    (Returned /\ compute_only_masks = "0" /\ HeightApplies) => HeightWritten

\* C28: a call that completes without error, on a non-empty raster set, has
\* written the mask patch exactly once.
C28_MaskWrittenOnce ==
    (Returned /\ rasters # <<>>) => Len(mskWrites) = 1

(***************************************************************************)
(* stack_window_raster called a second time with the same arguments        *)
(***************************************************************************)
\* the mask patch on disk after a call: the last patch written, or what was
\* there before
MaskContent(log, before) == IF log = <<>> THEN before ELSE log[Len(log)]

\* the first call has ended; the same arguments (meta and meta_msk as the
\* first call left them) are passed again
CallAgain ==
    /\ pc \in {"done", "error"} /\ calls = 1
    /\ calls' = 2
    /\ prev' = [imgFile |-> imgFile, imgMeta |-> imgMeta, imgWrites |-> imgWrites,
                msk |-> MaskContent(mskWrites, "untouched"), err |-> err]
    /\ pc' = "start" /\ it' = 0 /\ idx' = 0 /\ first' = TRUE
    /\ window' = NoWindow /\ window_src' = "none" /\ err' = "none"
    /\ mskWrites' = <<>> /\ shapes' = <<>>
    /\ UNCHANGED <<center, rasters, mns_mnt, compute_only_masks, meta, meta_msk,
                   imgFile, imgMeta, imgWrites, handles, heightVars, normVars,
                   geoVars, guardVars, pairVars, writerVars, loggerVars,
                   affineVars>>

NextTwice == Next \/ CallAgain

SpecTwice == Init /\ [][NextTwice]_vars

\* C21: a second call with the same inputs leaves the output state of the
\* first: the image file is absent when the image patch is opened for
\* writing, and the files and the outcome after the second call are those
\* after the first.
C21_SecondCallSameOutput ==
    /\ pc = "open" => imgFile = "absent"
    /\ (calls = 2 /\ (Returned \/ Failed)) =>
          /\ imgFile = prev.imgFile
          /\ imgMeta = prev.imgMeta
          /\ imgWrites = prev.imgWrites
          /\ MaskContent(mskWrites, prev.msk) = prev.msk
          /\ err = prev.err

\* a second call that has rewritten bands and mask over those of the first
C21_Witness ==
    /\ calls = 2 /\ Returned
    /\ prev.imgFile = "closed" /\ prev.imgWrites # <<>>
    /\ imgWrites = prev.imgWrites /\ mskWrites # <<>>

(***************************************************************************)
(* Two calls of stack_window_raster for different centers, interleaved at  *)
(* the statements that write and read meta and meta_msk                    *)
(***************************************************************************)
CallIds == {1, 2}

\* the metadata object a call was given
MetaOf(c) == IF p_shared THEN 1 ELSE c

\* lines 272-274: rasterio.windows.transform(window, src.transform)
OwnTransform(c) ==
    WindowTransform(GetWindow(p_center[c], p_raster), SrcTransform(p_raster))

InitPair ==
    /\ StackIdle /\ HeightIdle /\ NormIdle /\ GeoIdle /\ GuardIdle /\ AgainIdle
    /\ WriterIdle /\ LoggerIdle /\ AffineIdle
    /\ p_shared \in BOOLEAN
    /\ p_center \in {cs \in [CallIds -> Centers] : cs[1] # cs[2]}
    /\ \E w \in Widths, d \in DesiredRes :
          p_raster \in UNION {RasterChoices(nm, d, w) : nm \in RasterNames \ {"DSM", "DTM"}}
    /\ p_pc = [c \in CallIds |-> "set_msk"]
    /\ p_meta = [o \in CallIds |-> NoTransform]
    /\ p_meta_msk = [o \in CallIds |-> NoTransform]
    /\ p_img = [c \in CallIds |-> NoTransform]
    /\ p_msk = [c \in CallIds |-> NoTransform]

PairFrame == <<stackVars, heightVars, normVars, geoVars, guardVars, againVars,
               writerVars, loggerVars, affineVars, p_shared, p_center, p_raster>>

\* line 273: meta_msk["transform"] = ...
SetMskTransform(c) ==
    /\ p_pc[c] = "set_msk"
    /\ p_meta_msk' = [p_meta_msk EXCEPT ![MetaOf(c)] = OwnTransform(c)]
    /\ p_pc' = [p_pc EXCEPT ![c] = "set_img"]
    /\ UNCHANGED <<PairFrame, p_meta, p_img, p_msk>>

\* line 274: meta["transform"] = ...
SetImgTransform(c) ==
    /\ p_pc[c] = "set_img"
    /\ p_meta' = [p_meta EXCEPT ![MetaOf(c)] = OwnTransform(c)]
    /\ p_pc' = [p_pc EXCEPT ![c] = "open"]
    /\ UNCHANGED <<PairFrame, p_meta_msk, p_img, p_msk>>

\* line 276: rasterio.open(center["img_file"], 'w', **meta)
OpenImage(c) ==
    /\ p_pc[c] = "open"
    /\ p_img' = [p_img EXCEPT ![c] = p_meta[MetaOf(c)]]
    /\ p_pc' = [p_pc EXCEPT ![c] = "mask"]
    /\ UNCHANGED <<PairFrame, p_meta, p_meta_msk, p_msk>>

\* lines 298-302, 159: rasterio.open(out_file, 'w', **meta) with meta_msk
WriteMask(c) ==
    /\ p_pc[c] = "mask"
    /\ p_msk' = [p_msk EXCEPT ![c] = p_meta_msk[MetaOf(c)]]
    /\ p_pc' = [p_pc EXCEPT ![c] = "done"]
    /\ UNCHANGED <<PairFrame, p_meta, p_meta_msk, p_img>>

NextPair ==
    \E c \in CallIds :
        SetMskTransform(c) \/ SetImgTransform(c) \/ OpenImage(c) \/ WriteMask(c)

SpecPair == InitPair /\ [][NextPair]_vars

\* C23: two interleaved calls for different centers do not interfere: each
\* writes its image patch and its mask patch with the transform computed
\* from its own center.
C23_OwnTransform ==
    \A c \in CallIds :
        p_pc # <<>> /\ p_pc[c] = "done" =>
            p_img[c] = OwnTransform(c) /\ p_msk[c] = OwnTransform(c)

(***************************************************************************)
(* One call of normalize_array_in                                          *)
(***************************************************************************)
\* values passed as max_type_val: the maximum of the type, or a smaller target
MaxVals(dtype) == {MaxTypeVal(dtype), MaxTypeVal(dtype) \div 2}

InitNorm ==
    /\ StackIdle
    /\ HeightIdle
    /\ GeoIdle
    /\ GuardIdle
    /\ LaterIdle
    /\ n_pc = "start"
    /\ n_array \in Arrays
    /\ n_dtype \in DTypes
    /\ n_max \in MaxVals(n_dtype)
    /\ n_ub = "wrap" /\ n_scaled = FALSE /\ n_out = <<>>

Normalize ==
    /\ n_pc = "start"
    /\ \E ub \in UBOutcomes :
          /\ n_ub' = ub
          /\ n_out' = normalize_array_in(n_array, n_dtype, n_max, ub)
    /\ n_scaled' = Scales(n_array)
    /\ n_pc' = "done"
    /\ UNCHANGED <<stackVars, heightVars, geoVars, guardVars, laterVars, n_array, n_dtype, n_max>>

NextNorm == Normalize

SpecNorm == InitNorm /\ [][NextNorm]_vars

HasNonZero(array) == \E i \in 1..Len(array) : array[i] # 0
NonNegative(array) == \A i \in 1..Len(array) : array[i] >= 0
AllZero(array) == \A i \in 1..Len(array) : array[i] = 0

\* the maximum of the result is max_type_val, up to the truncation of the cast
MaxIsTarget == ArrayMax(n_out) \in {n_max - 1, n_max}

\* C11: after normalize_array_in on an array that has a nonzero element
\* (negative values allowed), the maximum of the result is max_type_val,
\* up to the rounding of the cast.
C11_MaxOfNonZeroArray ==
    (n_pc = "done" /\ HasNonZero(n_array)) => MaxIsTarget

\* C11 (amended): the same for arrays without negative values.
C11_MaxOfNonNegativeArray ==
    (n_pc = "done" /\ HasNonZero(n_array) /\ NonNegative(n_array)) => MaxIsTarget

C11_Witness ==
    /\ n_pc = "done" /\ HasNonZero(n_array) /\ NonNegative(n_array)
    /\ n_array[1] # n_array[2]
    /\ ArrayMax(n_out) = n_max

\* C12: the rescale is monotonic: on a nonzero array, array[i] <= array[j]
\* implies result[i] <= result[j].
C12_Monotonic ==
    (n_pc = "done" /\ HasNonZero(n_array)) =>
        \A i, j \in 1..Len(n_array) :
            n_array[i] <= n_array[j] => n_out[i] <= n_out[j]

\* C13: on the all-zero array no division is performed and the result has
\* the same shape and holds only zeros.
C13_ZeroArrayUnscaled ==
    (n_pc = "done" /\ AllZero(n_array)) =>
        /\ ~n_scaled
        /\ Len(n_out) = Len(n_array)
        /\ AllZero(n_out)

C13_Witness ==
    n_pc = "done" /\ AllZero(n_array) /\ Len(n_out) = ArrLen /\ AllZero(n_out)

(***************************************************************************)
(* get_scale_factor_and_img_size and get_bounds, in exact arithmetic.      *)
(* Lengths and resolutions are integers in units of 1e-4 ground unit, so   *)
(* that resolutions within and just outside the tolerance are distinct;    *)
(* quotients are fractions n/d.                                            *)
(***************************************************************************)
Abs(v) == IF v >= 0 THEN v ELSE 0 - v
Max2(a, b) == IF a >= b THEN a ELSE b

RECURSIVE Gcd(_, _)
Gcd(a, b) == IF b = 0 THEN a ELSE Gcd(b, a % b)

\* the fraction n/d in lowest terms, d > 0
Frac(n, d) ==
    LET g == Gcd(Abs(n), Abs(d))
        sgn == IF d > 0 THEN 1 ELSE 0 - 1
    IN  [n |-> sgn * (n \div g), d |-> sgn * (d \div g)]
FInt(v) == [n |-> v, d |-> 1]
FAdd(a, b) == Frac(a.n * b.d + b.n * a.d, a.d * b.d)
FSub(a, b) == Frac(a.n * b.d - b.n * a.d, a.d * b.d)
FMul(a, b) == Frac(a.n * b.n, a.d * b.d)
FDiv(a, b) == Frac(a.n * b.d, a.d * b.n)
FHalf(a) == Frac(a.n, 2 * a.d)

\* a tolerance ten times wider
isclose_Loose(a, b) == 1000 * Abs(a - b) <= Max2(Abs(a), Abs(b))

\* math.isclose(a, b, rel_tol=1e-04): abs(a - b) <= rel_tol * max(abs(a), abs(b))
isclose(a, b) == 10000 * Abs(a - b) <= Max2(Abs(a), Abs(b))

\* the size multiplied by the scale
ScaledSize_Times(size, scale) == FMul(FInt(size), scale)

\* lines 130-131: scaled_width = width / x_scale
ScaledSize(size, scale) == FDiv(FInt(size), scale)

\* get_scale_factor_and_img_size(target_raster, resolution, width, height),
\* res being target.res of the opened raster
get_scale_factor_and_img_size(res, resolution, width, height) ==
    LET x_close == isclose(res[1], resolution[1])
        y_close == isclose(res[2], resolution[2])
    IN  IF x_close /\ y_close
        THEN <<FInt(1), FInt(1), FInt(width), FInt(height)>>
        ELSE LET x_scale == Frac(res[1], resolution[1])
                 y_scale == Frac(res[2], resolution[2])
             IN  <<x_scale, y_scale, ScaledSize(width, x_scale), ScaledSize(height, y_scale)>>

\* bottom and top exchanged in the returned tuple
get_bounds_xy_Swapped(x, y, width, height, resolution_x, resolution_y) ==
    LET x_side == FHalf(FMul(width, FInt(resolution_x)))
        y_side == FHalf(FMul(height, FInt(resolution_y)))
    IN  <<FSub(FInt(x), x_side), FAdd(FInt(y), y_side),
          FAdd(FInt(x), x_side), FSub(FInt(y), y_side)>>

\* get_bounds(x, y, width, height, resolution_x, resolution_y) on both axes:
\* returns (left, bottom, right, top)
get_bounds_xy(x, y, width, height, resolution_x, resolution_y) ==
    LET x_side == FHalf(FMul(width, FInt(resolution_x)))
        y_side == FHalf(FMul(height, FInt(resolution_y)))
        left == FSub(FInt(x), x_side)
        top == FAdd(FInt(y), y_side)
        right == FAdd(FInt(x), x_side)
        bottom == FSub(FInt(y), y_side)
    IN  <<left, bottom, right, top>>

\* native resolutions: equal to, within, just outside and far from 1.0000
NativeRes == {10000, 10001, 10002, 20000}
DesiredResXY == {10000, 20000}
PatchWidths == {4, 6}
PatchHeights == {2}
CentersX == {30000, 70000}
CentersY == {50000}

InitGeo ==
    /\ StackIdle
    /\ HeightIdle
    /\ NormIdle
    /\ GuardIdle
    /\ LaterIdle
    /\ g_pc = "start"
    /\ g_res \in NativeRes \X NativeRes
    /\ g_resolution \in DesiredResXY \X DesiredResXY
    /\ g_width \in PatchWidths /\ g_height \in PatchHeights
    /\ g_x \in CentersX /\ g_y \in CentersY
    /\ g_scale = <<>> /\ g_bounds = <<>>

\* the call of get_scale_factor_and_img_size
ScaleFactor ==
    /\ g_pc = "start"
    /\ g_scale' = get_scale_factor_and_img_size(g_res, g_resolution, g_width, g_height)
    /\ g_pc' = "scaled"
    /\ UNCHANGED <<stackVars, heightVars, normVars, guardVars, laterVars, g_res, g_resolution,
                   g_width, g_height, g_x, g_y, g_bounds>>

\* _get_window: get_bounds on the scaled size and the native resolution
WindowBounds ==
    /\ g_pc = "scaled"
    /\ g_bounds' = get_bounds_xy(g_x, g_y, g_scale[3], g_scale[4], g_res[1], g_res[2])
    /\ g_pc' = "bounded"
    /\ UNCHANGED <<stackVars, heightVars, normVars, guardVars, laterVars, g_res, g_resolution,
                   g_width, g_height, g_x, g_y, g_scale>>

NextGeo == ScaleFactor \/ WindowBounds

SpecGeo == InitGeo /\ [][NextGeo]_vars

\* the native resolution is within 1e-4, relative to the larger one, of the
\* desired resolution
Within(native, desired) ==
    \/ native = desired
    \/ (native > desired /\ (native - desired) * 10000 <= native)
    \/ (desired > native /\ (desired - native) * 10000 <= desired)
BothWithin == Within(g_res[1], g_resolution[1]) /\ Within(g_res[2], g_resolution[2])
ScaleReturned == g_pc \in {"scaled", "bounded"}
Unscaled == <<FInt(1), FInt(1), FInt(g_width), FInt(g_height)>>

\* C14: get_scale_factor_and_img_size returns (1, 1, width, height) exactly
\* when the native resolution is within the tolerance of the desired one on
\* both axes; when either axis is outside it, both axes get scaled values.
C14_UnscaledIffBothWithin ==
    ScaleReturned =>
        /\ BothWithin <=> (g_scale = Unscaled)
        /\ ~BothWithin =>
              /\ g_scale[1] = Frac(g_res[1], g_resolution[1])
              /\ g_scale[2] = Frac(g_res[2], g_resolution[2])
              /\ FMul(g_scale[3], g_scale[1]) = FInt(g_width)
              /\ FMul(g_scale[4], g_scale[2]) = FInt(g_height)

\* one axis within the tolerance without being equal, the other outside
C14_Witness ==
    /\ ScaleReturned /\ ~BothWithin
    /\ Within(g_res[1], g_resolution[1]) /\ g_res[1] # g_resolution[1]
    /\ g_scale[1] # FInt(1) /\ g_scale[2] # FInt(1)

\* both axes within the tolerance, one of them without being equal
C14_WitnessWithin ==
    /\ ScaleReturned /\ BothWithin /\ g_res[2] # g_resolution[2]
    /\ g_scale = Unscaled

\* C15: outside the tolerance the scale is native / desired and the scaled
\* size is size / scale on each axis, so the window of _get_window spans
\* width * desired x resolution by height * desired y resolution.
C15_ExtentIsDesired ==
    (g_pc = "bounded" /\ ~BothWithin) =>
        /\ g_scale[1] = FDiv(FInt(g_res[1]), FInt(g_resolution[1]))
        /\ g_scale[2] = FDiv(FInt(g_res[2]), FInt(g_resolution[2]))
        /\ g_scale[3] = FDiv(FInt(g_width), g_scale[1])
        /\ g_scale[4] = FDiv(FInt(g_height), g_scale[2])
        /\ FSub(g_bounds[3], g_bounds[1]) = FInt(g_width * g_resolution[1])
        /\ FSub(g_bounds[4], g_bounds[2]) = FInt(g_height * g_resolution[2])

\* a scaled size that is not a whole number of pixels
C15_Witness ==
    /\ g_pc = "bounded" /\ ~BothWithin
    /\ g_scale[3].d # 1
    /\ FSub(g_bounds[3], g_bounds[1]) = FInt(g_width * g_resolution[1])
    /\ g_res[1] # g_res[2]

MaxSources == 2     \* longest list of sources
MaxCount == 2       \* largest band count of a raster
MaxBands == 2       \* longest list_of_band

SeqUpTo(S, n) == UNION {[1..k -> S] : k \in 0..n}

\* outcomes of rasterio.open and of fiona.open
RasterOpen == {"ok", "RasterioIOError"}
VectorOpen == {"ok", "DriverError", "CPLE_AppDefinedError"}
\* src.crs: a coordinate system, the empty string, or None
CrsValues == {"set", "empty", "none"}
RASTER_DRIVER_ACCEPTED == {"GTiff", "GeoTIFF", "VRT"}
FIONA_DRIVER_ACCEPTED == {"ESRI Shapefile", "GPKG"}
RasterDrivers == {"GTiff", "VRT", "PNG"}
VectorDrivers == {"ESRI Shapefile", "other"}

Source(o, c, d, n) == [open |-> o, crs |-> c, driver |-> d, count |-> n]

SourcesOf(guard) ==
    CASE guard = "geo_projection_raster_guard" ->
            {Source(o, c, "GTiff", 1) : o \in RasterOpen, c \in CrsValues}
      [] guard = "geo_projection_vector_guard" ->
            {Source(o, c, "ESRI Shapefile", 0) : o \in VectorOpen, c \in CrsValues}
      [] guard = "raster_driver_guard" ->
            {Source(o, "set", d, 1) : o \in RasterOpen, d \in RasterDrivers}
      [] guard = "vector_driver_guard" ->
            {Source(o, "set", d, 0) : o \in {"ok", "DriverError"}, d \in VectorDrivers}
      [] guard = "raster_bands_exist" ->
            {Source(o, "set", "GTiff", n) : o \in RasterOpen, n \in 1..MaxCount}

\* a single path (isinstance(raster, str)) or a list of paths
SourceArgs(guard) ==
    {[single |-> TRUE, srcs |-> <<x>>] : x \in SourcesOf(guard)}
    \cup {[single |-> FALSE, srcs |-> q] : q \in SeqUpTo(SourcesOf(guard), MaxSources)}

SourceGuards ==
    {"geo_projection_raster_guard", "geo_projection_vector_guard",
     "raster_driver_guard", "vector_driver_guard", "raster_bands_exist"}

BandIndexes == 0..(MaxCount + 1)
BandLists == SeqUpTo(BandIndexes, MaxBands) \ {<<>>}

\* the test without "is None"
CrsEmpty_OnlyEmptyString(crs) == crs = "empty"

\* src.crs == "" or src.crs is None
CrsEmpty(crs) == crs \in {"empty", "none"}

\* band >= bands_count
BandMissing_AtLeast(band, bands_count) == band >= bands_count

\* band > bands_count
BandMissing(band, bands_count) == band > bands_count

\* the guards stop at the first source, in order, that fails to open or
\* fails the test: 0 when there is none
FirstProblem(srcs, bad) ==
    LET P == {i \in 1..Len(srcs) : srcs[i].open # "ok" \/ bad[i]}
    IN  IF P = {} THEN 0 ELSE CHOOSE i \in P : \A j \in P : i <= j

CrsBad(srcs) == [i \in 1..Len(srcs) |-> CrsEmpty(srcs[i].crs)]
RasterDriverBad(srcs) == [i \in 1..Len(srcs) |-> srcs[i].driver \notin RASTER_DRIVER_ACCEPTED]
VectorDriverBad(srcs) == [i \in 1..Len(srcs) |-> srcs[i].driver \notin FIONA_DRIVER_ACCEPTED]
BandsBad(srcs, list_of_band) ==
    [i \in 1..Len(srcs) |->
        \E k \in 1..Len(list_of_band) : BandMissing(list_of_band[k], srcs[i].count)]

\* geo_projection_raster_guard(raster): the exceptions that can reach the caller
geo_projection_raster_guard(raster) ==
    LET i == FirstProblem(raster.srcs, CrsBad(raster.srcs))
    IN  IF i = 0 THEN {"ok"}
        ELSE IF raster.srcs[i].open # "ok" THEN {"ERR_IO"}
        ELSE {"ERR_COORDINATE_REFERENCE_SYSTEM"}

\* geo_projection_vector_guard(vector): only CPLE_AppDefinedError is caught,
\* and its handler formats src.crs, unbound when the first open failed
geo_projection_vector_guard(vector) ==
    LET i == FirstProblem(vector.srcs, CrsBad(vector.srcs))
    IN  IF i = 0 THEN {"ok"}
        ELSE IF vector.srcs[i].open = "DriverError" THEN {"DriverError"}
        ELSE IF vector.srcs[i].open = "CPLE_AppDefinedError"
             THEN (IF i = 1 THEN {"UnboundLocalError"}
                   ELSE {"ERR_COORDINATE_REFERENCE_SYSTEM"})
        ELSE {"ERR_COORDINATE_REFERENCE_SYSTEM"}

\* raster_driver_guard(raster)
raster_driver_guard(raster) ==
    LET i == FirstProblem(raster.srcs, RasterDriverBad(raster.srcs))
    IN  IF i = 0 THEN {"ok"}
        ELSE IF raster.srcs[i].open # "ok" THEN {"ERR_IO"}
        ELSE {"ERR_DRIVER_COMPATIBILITY"}

\* vector_driver_guard(vector): no exception handler
vector_driver_guard(vector) ==
    LET i == FirstProblem(vector.srcs, VectorDriverBad(vector.srcs))
    IN  IF i = 0 THEN {"ok"}
        ELSE IF vector.srcs[i].open # "ok" THEN {vector.srcs[i].open}
        ELSE {"ERR_DRIVER_COMPATIBILITY"}

\* raster_bands_exist(raster, list_of_band): the handlers format src.crs,
\* which is unbound when the first open failed and otherwise the dataset
\* closed before, whose crs the backend may or may not still give
raster_bands_exist(raster, list_of_band) ==
    LET i == FirstProblem(raster.srcs, BandsBad(raster.srcs, list_of_band))
    IN  IF i = 0 THEN {"ok"}
        ELSE IF raster.srcs[i].open # "ok"
             THEN (IF i = 1 THEN {"UnboundLocalError"}
                   ELSE {"ERR_IO", "RasterioIOError"})
        ELSE {"ERR_RASTER_BAND_NOT_EXIST"}

\* paths, as their characters: "a" and "aa"
Paths == {<<"a">>, <<"a", "a">>}

\* an element of list_of_file: a path or a list of paths
FileElements ==
    {[str |-> TRUE, path |-> p, paths |-> <<>>] : p \in Paths}
    \cup {[str |-> FALSE, path |-> <<>>, paths |-> q] : q \in SeqUpTo(Paths, MaxSources)}

\* list_of_file: a list of elements, or a single path passed in its place
FileArgs ==
    {[single |-> TRUE, path |-> p, elems |-> <<>>] : p \in Paths}
    \cup {[single |-> FALSE, path |-> <<>>, elems |-> q] : q \in SeqUpTo(FileElements, MaxSources)}

\* elements that are not strings are skipped
files_exist_StringsOnly(list_of_file, files) ==
    LET elements ==
            IF list_of_file.single
            THEN [i \in 1..Len(list_of_file.path) |->
                     [str |-> TRUE, path |-> <<list_of_file.path[i]>>, paths |-> <<>>]]
            ELSE list_of_file.elems
    IN  IF \E i \in 1..Len(elements) : elements[i].str /\ elements[i].path \notin files
        THEN "ERR_FILE_NOT_EXIST" ELSE "ok"

\* files_exist(list_of_file): "for element in list_of_file" runs over the
\* characters of a string; files is what os.path.isfile accepts
files_exist(list_of_file, files) ==
    LET elements ==
            IF list_of_file.single
            THEN [i \in 1..Len(list_of_file.path) |->
                     [str |-> TRUE, path |-> <<list_of_file.path[i]>>, paths |-> <<>>]]
            ELSE list_of_file.elems
        Missing(e) ==
            IF e.str THEN e.path \notin files
            ELSE \E k \in 1..Len(e.paths) : e.paths[k] \notin files
    IN  IF \E i \in 1..Len(elements) : Missing(elements[i])
        THEN "ERR_FILE_NOT_EXIST" ELSE "ok"

Guards == SourceGuards \cup {"files_exist"}

InitGuard ==
    /\ StackIdle
    /\ HeightIdle
    /\ NormIdle
    /\ GeoIdle
    /\ LaterIdle
    /\ q_pc = "start"
    /\ q_guard \in Guards
    /\ q_arg \in (IF q_guard = "files_exist" THEN FileArgs ELSE SourceArgs(q_guard))
    /\ q_bands \in (IF q_guard = "raster_bands_exist" THEN BandLists ELSE {<<>>})
    /\ q_files \in (IF q_guard = "files_exist" THEN SUBSET Paths ELSE {{}})
    /\ q_out = "none"

\* the call returns q_out, one of the outcomes
GuardReturns(guard, outcomes) ==
    /\ q_pc = "start" /\ q_guard = guard
    /\ q_out' \in outcomes
    /\ q_pc' = "done"
    /\ UNCHANGED <<stackVars, heightVars, normVars, geoVars, laterVars, q_guard, q_arg, q_bands, q_files>>

RasterCrsGuard ==
    GuardReturns("geo_projection_raster_guard", geo_projection_raster_guard(q_arg))
VectorCrsGuard ==
    GuardReturns("geo_projection_vector_guard", geo_projection_vector_guard(q_arg))
RasterDriverGuard ==
    GuardReturns("raster_driver_guard", raster_driver_guard(q_arg))
VectorDriverGuard ==
    GuardReturns("vector_driver_guard", vector_driver_guard(q_arg))
RasterBandsExist ==
    GuardReturns("raster_bands_exist", raster_bands_exist(q_arg, q_bands))
FilesExist ==
    GuardReturns("files_exist", {files_exist(q_arg, q_files)})

NextGuard ==
    \/ RasterCrsGuard
    \/ VectorCrsGuard
    \/ RasterDriverGuard
    \/ VectorDriverGuard
    \/ RasterBandsExist
    \/ FilesExist

SpecGuard == InitGuard /\ [][NextGuard]_vars

GuardDone(guards) == q_pc = "done" /\ q_guard \in guards
AllOpen == \A i \in 1..Len(q_arg.srcs) : q_arg.srcs[i].open = "ok"

\* C17: when the backend fails to open a source (here the first one the
\* guard opens), each of the five guards ends with an OdeonError of kind
\* ERR_IO.
C17_OpenFailureIsErrIO ==
    (GuardDone(SourceGuards) /\ Len(q_arg.srcs) >= 1 /\ q_arg.srcs[1].open # "ok")
        => q_out = "ERR_IO"

SomeCrsUnset == \E i \in 1..Len(q_arg.srcs) : q_arg.srcs[i].crs \in {"empty", "none"}
CrsGuards == {"geo_projection_raster_guard", "geo_projection_vector_guard"}

GivenPaths ==
    IF q_arg.single THEN {q_arg.path}
    ELSE UNION {IF q_arg.elems[i].str THEN {q_arg.elems[i].path}
                ELSE {q_arg.elems[i].paths[k] : k \in 1..Len(q_arg.elems[i].paths)}
                : i \in 1..Len(q_arg.elems)}
SomeFileMissing == \E f \in GivenPaths : f \notin q_files
FilesVerdict ==
    /\ SomeFileMissing <=> (q_out = "ERR_FILE_NOT_EXIST")
    /\ ~SomeFileMissing <=> (q_out = "ok")

\* C19: files_exist raises ERR_FILE_NOT_EXIST if and only if some given
\* path is not an existing file, and returns otherwise, for a single path,
\* a list of paths and a list holding nested lists of paths.
C19_FilesExistIff ==
    GuardDone({"files_exist"}) => FilesVerdict

\* C19 (amended): the same for a list of paths and a list holding nested lists.
C19_FilesExistIffForLists ==
    (GuardDone({"files_exist"}) /\ ~q_arg.single) => FilesVerdict

\* a missing file inside a nested list, after a path that exists
C19_Witness ==
    /\ GuardDone({"files_exist"}) /\ ~q_arg.single /\ Len(q_arg.elems) = MaxSources
    /\ q_arg.elems[1].str /\ q_arg.elems[1].path \in q_files
    /\ ~q_arg.elems[2].str /\ \E k \in 1..Len(q_arg.elems[2].paths) : q_arg.elems[2].paths[k] \notin q_files
    /\ q_out = "ERR_FILE_NOT_EXIST"

BandsVerdict(invalid) ==
    /\ invalid <=> (q_out = "ERR_RASTER_BAND_NOT_EXIST")
    /\ ~invalid <=> (q_out = "ok")
SomeBandOutside ==
    \E i \in 1..Len(q_arg.srcs), k \in 1..Len(q_bands) :
        q_bands[k] \notin 1..q_arg.srcs[i].count
SomeBandAbove ==
    \E i \in 1..Len(q_arg.srcs), k \in 1..Len(q_bands) :
        q_bands[k] > q_arg.srcs[i].count

THRESHOLD == 5
MaxBatches == 2

OutputTypes == {"bit", "uint8", "float32"}
Thresholds == {THRESHOLD, 7}
Intervals == {"batch", "epoch"}
TileNames == {"t1", "t2"}
\* affine arrays of the items: <<pixel size, origin>>
AffineArrays == {<<1, 3>>, <<2, 8>>}
TestResolution == {2}
\* probabilities of one tile: two class bands of two pixels
AllAbove == <<(<<6, 6>>), (<<6, 6>>)>>
AllBelow == <<(<<4, 4>>), (<<4, 4>>)>>
Probas == {AllAbove, AllBelow, <<(<<4, 6>>), (<<6, 4>>)>>, <<(<<6, 6>>), (<<4, 4>>)>>}
BatchSizes == {1, 2}
Items == [filename : TileNames, affine : AffineArrays, proba : Probas]
\* the tiles of one batch are distinct tiles of the dataset
Batches ==
    {b \in UNION {[1..n -> Items] : n \in BatchSizes} :
        \A i, j \in 1..Len(b) : i # j => b[i].filename # b[j].filename}

\* ndarray_to_affine: the affine transform holding the numbers of the array
ndarray_to_affine(arr) == [a |-> arr[1], c |-> arr[2]]

\* rasterio's aligned_target: pixel size set to the resolution, origin snapped
\* down to a multiple of it
aligned_target(transform, resolution) ==
    [a |-> resolution, c |-> (transform.c \div resolution) * resolution]

\* TypeConverter().from_type("float32").to_type(t).convert(proba, threshold)
ConvertPixel(p, t, threshold) ==
    CASE t = "bit" -> IF p > threshold THEN 1 ELSE 0
      [] t = "uint8" -> (p * 255) \div 10
      [] OTHER -> p
Convert(proba, t, threshold) ==
    [k \in DOMAIN proba |->
        [j \in DOMAIN proba[k] |-> ConvertPixel(proba[k][j], t, threshold)]]

\* the array handed to src.write
WritePred_Raw(proba, t, threshold) == proba
WritePred(proba, t, threshold) == Convert(proba, t, threshold)

\* self.meta["transform"] at the time the item's file is opened
ItemTransform_Stale(old, affine, resolution) == old
ItemTransform(old, affine, resolution) ==
    aligned_target(ndarray_to_affine(affine), resolution)

\* trainer.datamodule.meta["test"], the dictionary self.meta names from
\* on_predict_start on
DataModuleMeta == [dtype |-> "none", transform |-> [a |-> 1, c |-> 0]]

MetaDtype(t) == IF t \in {"uint8", "bit"} THEN "uint8" ELSE "float32"

InitWriter ==
    /\ StackIdle /\ HeightIdle /\ NormIdle /\ GeoIdle /\ GuardIdle
    /\ AgainIdle /\ PairIdle /\ LoggerIdle /\ AffineIdle
    /\ w_pc = "new"
    /\ w_output_type \in OutputTypes
    /\ w_threshold \in Thresholds
    /\ w_interval \in Intervals
    /\ w_meta = DataModuleMeta
    /\ w_gdal = [bit |-> FALSE]
    /\ w_batch = <<>> /\ w_i = 0 /\ w_files = <<>> /\ w_batch_no = 0

WriterFrame == <<stackVars, heightVars, normVars, geoVars, guardVars,
                 againVars, pairVars, loggerVars, affineVars,
                 w_output_type, w_threshold, w_interval>>

on_predict_start ==
    /\ w_pc = "new"
    /\ w_pc' = "ready"
    /\ w_meta' = [w_meta EXCEPT !.dtype = MetaDtype(w_output_type)]
    /\ w_gdal' = [bit |-> (w_output_type = "bit")]
    /\ UNCHANGED <<WriterFrame, w_batch, w_i, w_files, w_batch_no>>

\* on_predict_batch_end when the interval is not per batch: returns at once
BatchEndSkipped ==
    /\ w_pc = "ready" /\ w_batch_no < MaxBatches
    /\ w_interval # "batch"
    /\ \E b \in Batches : w_batch' = b
    /\ w_files' = <<>>
    /\ w_batch_no' = w_batch_no + 1
    /\ UNCHANGED <<WriterFrame, w_pc, w_meta, w_gdal, w_i>>

\* on_predict_batch_end when the interval is per batch: write_on_batch_end starts
BatchEndWrites ==
    /\ w_pc = "ready" /\ w_batch_no < MaxBatches
    /\ w_interval = "batch"
    /\ \E b \in Batches : w_batch' = b
    /\ w_files' = <<>>
    /\ w_i' = 1
    /\ w_pc' = "loop"
    /\ w_batch_no' = w_batch_no + 1
    /\ UNCHANGED <<WriterFrame, w_meta, w_gdal>>

\* one turn of the for loop of write_on_batch_end
WriteItem ==
    /\ w_pc = "loop" /\ w_i <= Len(w_batch)
    /\ \E res \in TestResolution :
         LET item == w_batch[w_i]
             t    == ItemTransform(w_meta.transform, item.affine, res)
             m    == [w_meta EXCEPT !.transform = t]
         IN /\ w_meta' = m
            /\ w_files' = Append(w_files,
                   [file      |-> <<"output_dir", item.filename>>,
                    dtype     |-> m.dtype,
                    transform |-> m.transform,
                    bit       |-> w_gdal.bit,
                    pred      |-> WritePred(item.proba, w_output_type, w_threshold)])
    /\ w_i' = w_i + 1
    /\ UNCHANGED <<WriterFrame, w_pc, w_gdal, w_batch, w_batch_no>>

\* the for loop is over
WriteEnd ==
    /\ w_pc = "loop" /\ w_i > Len(w_batch)
    /\ w_pc' = "ready"
    /\ w_i' = 0
    /\ UNCHANGED <<WriterFrame, w_meta, w_gdal, w_batch, w_files, w_batch_no>>

NextWriter ==
    \/ on_predict_start
    \/ BatchEndSkipped
    \/ BatchEndWrites
    \/ WriteItem
    \/ WriteEnd

SpecWriter == InitWriter /\ [][NextWriter]_vars

\* the handler of the last batch has returned
BatchHandled == w_pc = "ready" /\ w_batch_no > 0

\* C25: with output type "bit" and the default threshold, every class band
\* written holds 1 where the probability is above the threshold and 0 where it
\* is below.
C25_BitThreshold ==
    (w_output_type = "bit" /\ w_threshold = THRESHOLD) =>
        \A i \in 1..Len(w_files) :
            \A k \in DOMAIN w_batch[i].proba :
                \A j \in DOMAIN w_batch[i].proba[k] :
                    /\ w_batch[i].proba[k][j] > THRESHOLD => w_files[i].pred[k][j] = 1
                    /\ w_batch[i].proba[k][j] < THRESHOLD => w_files[i].pred[k][j] = 0

\* one tile of 0.6 everywhere written as ones, one of 0.4 everywhere as zeros
C25_Witness ==
    /\ w_output_type = "bit" /\ w_threshold = THRESHOLD /\ BatchHandled
    /\ Len(w_files) = 2
    /\ w_batch[1].proba = AllAbove
    /\ w_files[1].pred = <<(<<1, 1>>), (<<1, 1>>)>>
    /\ w_batch[2].proba = AllBelow
    /\ w_files[2].pred = <<(<<0, 0>>), (<<0, 0>>)>>

\* C26: a batch handled per batch leaves exactly one file per item, opened
\* with the aligned transform of that item's own affine; a batch handled with
\* another interval leaves no file.
C26_OneFilePerItem ==
    /\ (w_batch_no > 0 /\ w_interval # "batch") => w_files = <<>>
    /\ (BatchHandled /\ w_interval = "batch") =>
          /\ Len(w_files) = Len(w_batch)
          /\ \A i \in 1..Len(w_batch) :
                /\ w_files[i].file = <<"output_dir", w_batch[i].filename>>
                /\ \E res \in TestResolution : w_files[i].transform =
                      aligned_target(ndarray_to_affine(w_batch[i].affine), res)
          /\ \A i, j \in 1..Len(w_files) :
                i # j => w_files[i].file # w_files[j].file

\* a second batch of two items whose affines differ, after a first batch
C26_Witness ==
    /\ BatchHandled /\ w_interval = "batch" /\ w_batch_no = MaxBatches
    /\ Len(w_batch) = 2 /\ Len(w_files) = 2
    /\ w_batch[1].affine # w_batch[2].affine
    /\ w_files[1].transform # w_files[2].transform

\* a batch arrived with another interval and nothing was written
C26_WitnessSkipped ==
    w_batch_no > 0 /\ w_interval = "epoch" /\ w_batch # <<>> /\ w_files = <<>>

\* ---------------------------------------------------------------------------
\* HistorySaver.get_json_logger (callbacks/utils_callbacks.py)
\* ---------------------------------------------------------------------------
MaxLoggers == 3
MaxCalls == 3

LoggerKinds == {"JSONLogger", "OtherLogger"}
\* trainer.logger: one logger, or a LoggerCollection of loggers
TrainerLoggers ==
    [kind : {"single"}, of : LoggerKinds, items : {<<>>}]
    \cup [kind : {"collection"}, of : {"LoggerCollection"},
          items : UNION {[1..n -> LoggerKinds] : n \in 1..MaxLoggers}]

Phases == {"val", "test"}
\* self.phase_dict
phase_dict(phase) == IF phase = "val" THEN 0 ELSE 1

\* the positions (from 0) of the JSONLoggers of a collection, in order
RECURSIVE JsonIndices(_, _)
JsonIndices(items, n) ==
    IF n > Len(items) THEN <<>>
    ELSE (IF items[n] = "JSONLogger" THEN <<n - 1>> ELSE <<>>)
         \o JsonIndices(items, n + 1)

\* self.idx_json_loggers after the first block of get_json_logger
FirstIndex(ix, logger) ==
    IF ix.kind # "None" THEN ix
    ELSE IF logger.kind = "single" /\ logger.of = "JSONLogger"
         THEN [kind |-> "int", num |-> 0, list |-> <<>>]
    ELSE IF logger.kind = "collection"
         THEN [kind |-> "list", num |-> 0, list |-> JsonIndices(logger.items, 1)]
    ELSE [kind |-> "list", num |-> 0, list |-> <<>>]

\* the truth value Python gives to self.idx_json_loggers
Truthy(ix) ==
    CASE ix.kind = "int" -> ix.num # 0
      [] ix.kind = "list" -> ix.list # <<>>
      [] OTHER -> FALSE

\* the outcome of get_json_logger once self.idx_json_loggers is set
Outcome(ix, logger, phase) ==
    IF Truthy(ix)
    THEN IF ix.kind = "int" /\ ix.num = 0
         THEN [kind |-> "return", what |-> logger.of]
         ELSE IF phase_dict(phase) + 1 > Len(ix.list)
              THEN [kind |-> "IndexError", what |-> "list index out of range"]
              ELSE [kind |-> "return",
                    what |-> logger.items[ix.list[phase_dict(phase) + 1] + 1]]
    ELSE [kind |-> "OdeonError", what |-> "ERR_CALLBACK_ERROR"]

InitLogger ==
    /\ StackIdle /\ HeightIdle /\ NormIdle /\ GeoIdle /\ GuardIdle
    /\ AgainIdle /\ PairIdle /\ WriterIdle /\ AffineIdle
    /\ l_logger \in TrainerLoggers
    /\ l_idx = [kind |-> "None", num |-> 0, list |-> <<>>]
    /\ l_log = <<>>

LoggerFrame == <<stackVars, heightVars, normVars, geoVars, guardVars,
                 againVars, pairVars, writerVars, affineVars, l_logger>>

get_json_logger(phase) ==
    /\ Len(l_log) < MaxCalls
    /\ l_idx' = FirstIndex(l_idx, l_logger)
    /\ l_log' = Append(l_log, [phase |-> phase,
                               out |-> Outcome(l_idx', l_logger, phase)])
    /\ UNCHANGED LoggerFrame

on_validation_epoch_end == get_json_logger("val")
on_test_epoch_end == get_json_logger("test")

NextLogger ==
    \/ on_validation_epoch_end
    \/ on_test_epoch_end

SpecLogger == InitLogger /\ [][NextLogger]_vars

\* a JSONLogger is attached to the trainer
JsonAttached ==
    \/ l_logger.kind = "single" /\ l_logger.of = "JSONLogger"
    \/ l_logger.kind = "collection"
         /\ \E i \in 1..Len(l_logger.items) : l_logger.items[i] = "JSONLogger"

\* C29: every call of get_json_logger returns a JSONLogger when one is
\* attached (the trainer's logger itself when that is a JSONLogger), for both
\* phases and on later calls as on the first; the only error is
\* OdeonError(ERR_CALLBACK_ERROR), and only when none is attached.
C29_ReturnsJsonLogger ==
    \A i \in 1..Len(l_log) :
        /\ JsonAttached =>
              l_log[i].out = [kind |-> "return", what |-> "JSONLogger"]
        /\ l_log[i].out.kind # "return" =>
              /\ l_log[i].out = [kind |-> "OdeonError", what |-> "ERR_CALLBACK_ERROR"]
              /\ ~JsonAttached

\* ---------------------------------------------------------------------------
\* set_afffine_transform_to_meta (commons/rasterio.py)
\* ---------------------------------------------------------------------------
\* offsets are counted in halves of a unit, so that width / 2 is exact
CenterXs == {0, 3, 10}
CenterYs == {0, 3, 7}
MetaWidths == {2, 5}
MetaHeights == {2, 4}
\* the a, b, d, e terms of meta["transform"]; c and f in halves
MetaTransforms ==
    {[a |-> 1, b |-> 0, c |-> 0, d |-> 0, e |-> -1, f |-> 0],
     [a |-> 2, b |-> 1, c |-> 8, d |-> 3, e |-> -2, f |-> 6]}

\* rasterio.Affine(a, b, c, d, e, f)
Affine(a, b, c, d, e, f) == [a |-> a, b |-> b, c |-> c, d |-> d, e |-> e, f |-> f]

\* upper-left corner of the patch, in halves
ul_x(ctr, m) == 2 * ctr.x - m.width
ul_y(ctr, m) == 2 * ctr.y + m.height

InitAffine ==
    /\ StackIdle /\ HeightIdle /\ NormIdle /\ GeoIdle /\ GuardIdle
    /\ AgainIdle /\ PairIdle /\ WriterIdle /\ LoggerIdle
    /\ a_pc = "call"
    /\ a_center \in [x : CenterXs, y : CenterYs]
    /\ a_meta \in [width : MetaWidths, height : MetaHeights,
                   transform : MetaTransforms]
    /\ a_out = <<>>

set_afffine_transform_to_meta ==
    /\ a_pc = "call"
    /\ a_out' = Affine(a_meta.transform.a, a_meta.transform.b,
                       ul_y(a_center, a_meta),
                       a_meta.transform.d, a_meta.transform.e,
                       ul_x(a_center, a_meta))
    /\ a_pc' = "done"
    /\ UNCHANGED <<stackVars, heightVars, normVars, geoVars, guardVars,
                   againVars, pairVars, writerVars, loggerVars,
                   a_center, a_meta>>

NextAffine == set_afffine_transform_to_meta

SpecAffine == InitAffine /\ [][NextAffine]_vars

\* C30: the transform returned keeps a, b, d, e of meta["transform"], its c
\* is center.x - width/2 and its f is center.y + height/2.
C30_UpperLeftOffsets ==
    a_pc = "done" =>
        /\ a_out.a = a_meta.transform.a /\ a_out.b = a_meta.transform.b
        /\ a_out.d = a_meta.transform.d /\ a_out.e = a_meta.transform.e
        /\ a_out.c = ul_x(a_center, a_meta)
        /\ a_out.f = ul_y(a_center, a_meta)
====
